---- MODULE Spec2Model ----
(***************************************************************************)
(* circular_buffer<T> (src/circular-buffer.h) as a state machine.          *)
(*                                                                         *)
(* Two named buffer objects, "A" and "B", and the temporary object "tmp"   *)
(* that ensure_capacity and operator= create, live over a heap of raw      *)
(* storage blocks.  A block is an array of slots; a slot holds a           *)
(* constructed T (a value) or no element.  Every public operation is one   *)
(* action; the private helpers are operators over a world                  *)
(* [bufs, heap, objs], composed exactly as the member functions call each  *)
(* other.  objs counts the T objects constructed and not yet destroyed.    *)
(*                                                                         *)
(* Besides the program state a world carries the circumstances of one call *)
(* (throws, fuel: T's copy constructor throws after fuel successful        *)
(* copies; nomem: operator new throws; junk: what a read of released       *)
(* storage yields) and a log of what the call did (thrown, ub, made, gone, *)
(* swaps, side, badfree; side is the end insert or erase shifted towards). *)
(* They start afresh with every public operation; last keeps the name of   *)
(* the latest operation, its buffer, and the side and swaps of its log.    *)
(* misfreed records whether any call so far released a block wrongly.      *)
(* cur holds two cursors of "A" that cursor arithmetic moves.              *)
(***************************************************************************)
EXTENDS Integers, Sequences, FiniteSets, TLC

VARIABLES bufs, heap, objs, ref, last, misfreed, cur

vars == <<bufs, heap, objs, ref, last, misfreed, cur>>

---------------------------------------------------------------------------
(* Bounds of the model *)

MaxCap == 4
MaxCapTwo == 2
MaxCapShift == 8
MaxLen == 7
MaxOffset == 6
WordBits == 5

Values == {1, 2}
Names == {"A", "B"}
Tmp == "tmp"
Objects == Names \cup {Tmp}
Blocks == 1..Cardinality(Objects)
Word == 2 ^ WordBits

NoElem == 0
nullptr == 0

---------------------------------------------------------------------------
(* size_t arithmetic and raw storage *)

ToWord(n) == n % Word

ToSigned(n) == IF ToWord(n) >= Word \div 2 THEN ToWord(n) - Word ELSE ToWord(n)

RawSlots(n) == [k \in 0..(n - 1) |-> NoElem]

FreedBlock == [alloc |-> FALSE, slots |-> RawSlots(0)]

operator_new(h, n) ==
  CHOOSE b \in Blocks : /\ ~h[b].alloc
                        /\ \A c \in Blocks : ~h[c].alloc => b <= c

operator_delete(h, p) ==
  IF p = nullptr THEN h ELSE [h EXCEPT ![p] = FreedBlock]

NoObject == [live |-> FALSE, data |-> nullptr, capacity |-> 0, head |-> 0, size |-> 0]

DefaultCtor == [live |-> TRUE, data |-> nullptr, capacity |-> 0, head |-> 0, size |-> 0]

(* new (p + k) T(v): T's copy constructor throws when its fuel is spent *)
PlacementNew(w, p, k, v) ==
  IF w.throws /\ w.fuel = 0
  THEN [w EXCEPT !.thrown = TRUE]
  ELSE [w EXCEPT !.heap[p].slots[k] = v, !.objs = @ + 1, !.made = @ + 1,
                 !.fuel = IF w.throws THEN @ - 1 ELSE @]

DestroyAt(w, p, k) ==
  [w EXCEPT !.heap[p].slots[k] = NoElem, !.objs = @ - 1, !.gone = @ + 1]

(* A const T& argument: an object outside every buffer (p = nullptr, its   *)
(* value v) or the element in slot k of block p.                            *)
Arg(v) == [p |-> nullptr, k |-> 0, v |-> v]

ElemRef(p, k) == [p |-> p, k |-> k, v |-> NoElem]

(* Reading through the reference; reading an element that was destroyed or *)
(* whose block was released is undefined and yields junk.                   *)
Dangling(w, val) ==
  /\ val.p # nullptr
  /\ \/ ~w.heap[val.p].alloc
     \/ val.k \notin DOMAIN w.heap[val.p].slots
     \/ w.heap[val.p].slots[val.k] = NoElem

Read(w, val) ==
  IF val.p = nullptr THEN val.v
  ELSE IF Dangling(w, val) THEN w.junk
  ELSE w.heap[val.p].slots[val.k]

CopyConstructFrom(w, p, k, val) ==
  PlacementNew([w EXCEPT !.ub = @ \/ Dangling(w, val)], p, k, Read(w, val))

AssignAt(w, p, k, v) ==
  [w EXCEPT !.heap[p].slots[k] = v]

---------------------------------------------------------------------------
(* buffer_iterator: (buff_, offset_) with offset_ a size_t *)

Iter(x, off) == [buff |-> x, offset |-> ToWord(off)]

begin(w, x) == Iter(x, 0)

end(w, x) == Iter(x, w.bufs[x].size)

ItPlus(it, n) == Iter(it.buff, it.offset + Word + n)

ItMinus(it, n) == ItPlus(it, -n)

ItDiff(a, b) == ToSigned(a.offset + Word - b.offset)

ItEq(a, b) == a.buff = b.buff /\ a.offset = b.offset

ItGt(a, b) == a.buff = b.buff /\ a.offset > b.offset

ItLt(a, b) == ~(ItEq(a, b) \/ ItGt(a, b))

ItGe(a, b) == ItGt(a, b) \/ ItEq(a, b)

ItLe(a, b) == ItLt(a, b) \/ ItEq(a, b)

(* Mutant: the physical slot computed without the head *)
get_real_index_ignores_head(w, it, off) ==
  ToWord(it.offset + off) % w.bufs[it.buff].capacity

get_real_index(w, it, off) ==
  ToWord(it.offset + w.bufs[it.buff].head + off) % w.bufs[it.buff].capacity

ItDeref(w, it) == w.heap[w.bufs[it.buff].data].slots[get_real_index(w, it, 0)]

iter_swap(w, a, b) ==
  LET p == w.bufs[a.buff].data
      q == w.bufs[b.buff].data
      i == get_real_index(w, a, 0)
      j == get_real_index(w, b, 0)
      va == w.heap[p].slots[i]
      vb == w.heap[q].slots[j]
  IN  [AssignAt(AssignAt(w, p, i, vb), q, j, va) EXCEPT !.swaps = @ + 1]

---------------------------------------------------------------------------
(* Observers *)

size(w, x) == w.bufs[x].size

capacity(w, x) == w.bufs[x].capacity

data(w, x) == w.bufs[x].data

empty(w, x) == size(w, x) = 0

Index(w, x, i) ==
  w.heap[data(w, x)].slots[ToWord(w.bufs[x].head + i) % w.bufs[x].capacity]

back(w, x) == ItDeref(w, ItMinus(end(w, x), 1))

front(w, x) == ItDeref(w, begin(w, x))

(* Mutant: the tail slot computed from size alone, ignoring head *)
tail_ignores_head(w, x) == ToWord(size(w, x)) % w.bufs[x].capacity

tail(w, x) == ToWord(w.bufs[x].head + size(w, x)) % w.bufs[x].capacity

BufEq(w, x, y) ==
  /\ data(w, x) = data(w, y)
  /\ w.bufs[x].head = w.bufs[y].head
  /\ size(w, x) = size(w, y)

(* Mutant: operator!= that compares head and size but not the storage *)
BufNe_without_storage(w, x, y) ==
  \/ w.bufs[x].head # w.bufs[y].head
  \/ size(w, x) # size(w, y)

BufNe(w, x, y) == ~BufEq(w, x, y)

---------------------------------------------------------------------------
(* Private helpers, constructors and destructor *)

(* std::uninitialized_copy's handler: destroy the k copies made so far *)
RECURSIVE DestroyCopies(_, _, _)
DestroyCopies(w, p, k) ==
  IF k = 0 THEN w ELSE DestroyCopies(DestroyAt(w, p, k - 1), p, k - 1)

RECURSIVE uninitialized_copy(_, _, _, _, _)
uninitialized_copy(w, first, lst, p, k) ==
  IF ItEq(first, lst) THEN w
  ELSE LET w1 == PlacementNew(w, p, k, ItDeref(w, first))
       IN  IF w1.thrown THEN DestroyCopies(w1, p, k)
           ELSE uninitialized_copy(w1, ItPlus(first, 1), lst, p, k + 1)

(* Mutant: a sized copy constructor whose handler keeps the new block *)
SizedCopyCtor_keeps_block(w, t, other, new_capacity) ==
  IF new_capacity # 0 /\ w.nomem THEN [w EXCEPT !.thrown = TRUE]
  ELSE
  LET p  == IF new_capacity = 0 THEN nullptr ELSE operator_new(w.heap, new_capacity)
      h1 == IF new_capacity = 0 THEN w.heap
            ELSE [w.heap EXCEPT ![p] = [alloc |-> TRUE, slots |-> RawSlots(new_capacity)]]
      b1 == [w.bufs EXCEPT ![t] = [live |-> TRUE, data |-> p, capacity |-> new_capacity,
                                   head |-> 0, size |-> w.bufs[other].size]]
      w1 == [w EXCEPT !.bufs = b1, !.heap = h1]
      w2 == uninitialized_copy(w1, begin(w1, other), end(w1, other), p, 0)
  IN  IF w2.thrown THEN [w2 EXCEPT !.bufs[t] = NoObject] ELSE w2

SizedCopyCtor(w, t, other, new_capacity) ==
  IF new_capacity # 0 /\ w.nomem THEN [w EXCEPT !.thrown = TRUE]
  ELSE
  LET p  == IF new_capacity = 0 THEN nullptr ELSE operator_new(w.heap, new_capacity)
      h1 == IF new_capacity = 0 THEN w.heap
            ELSE [w.heap EXCEPT ![p] = [alloc |-> TRUE, slots |-> RawSlots(new_capacity)]]
      b1 == [w.bufs EXCEPT ![t] = [live |-> TRUE, data |-> p, capacity |-> new_capacity,
                                   head |-> 0, size |-> w.bufs[other].size]]
      w1 == [w EXCEPT !.bufs = b1, !.heap = h1]
      w2 == uninitialized_copy(w1, begin(w1, other), end(w1, other), p, 0)
  IN  IF w2.thrown
      THEN [w2 EXCEPT !.heap = operator_delete(w2.heap, p), !.bufs[t] = NoObject]
      ELSE w2

(* Mutant: a copy constructor that shares the source's storage block *)
CopyCtor_shallow(w, t, other) ==
  [w EXCEPT !.bufs[t] = [w.bufs[other] EXCEPT !.live = TRUE]]

CopyCtor(w, t, other) == SizedCopyCtor(w, t, other, w.bufs[other].size)

swap(w, a, b) ==
  [w EXCEPT !.bufs[a] = [@ EXCEPT !.data = w.bufs[b].data, !.capacity = w.bufs[b].capacity,
                                  !.head = w.bufs[b].head, !.size = w.bufs[b].size],
            !.bufs[b] = [@ EXCEPT !.data = w.bufs[a].data, !.capacity = w.bufs[a].capacity,
                                  !.head = w.bufs[a].head, !.size = w.bufs[a].size]]

pop_back(w, x) ==
  LET w1 == DestroyAt(w, data(w, x), get_real_index(w, ItMinus(end(w, x), 1), 0))
  IN  [w1 EXCEPT !.bufs[x].size = @ - 1]

(* Mutant: pop_front that forgets to destroy the removed element *)
pop_front_without_destroy(w, x) ==
  LET w1 == [w EXCEPT !.bufs[x].size = @ - 1]
  IN  [w1 EXCEPT !.bufs[x].head = ToWord(@ + 1) % w1.bufs[x].capacity]

pop_front(w, x) ==
  LET w1 == [w EXCEPT !.bufs[x].size = @ - 1]
      w2 == DestroyAt(w1, data(w1, x), w1.bufs[x].head)
  IN  [w2 EXCEPT !.bufs[x].head = ToWord(@ + 1) % w2.bufs[x].capacity]

(* Mutant: clear that also releases the storage block *)
RECURSIVE clear_and_release(_, _)
clear_and_release(w, x) ==
  IF ~empty(w, x) THEN clear_and_release(pop_back(w, x), x)
  ELSE [w EXCEPT !.heap = operator_delete(w.heap, data(w, x)),
                 !.bufs[x].data = nullptr,
                 !.bufs[x].capacity = 0,
                 !.bufs[x].head = 0]

RECURSIVE clear(_, _)
clear(w, x) == IF ~empty(w, x) THEN clear(pop_back(w, x), x) ELSE w

(* Releasing p is bad when p is not an allocated block or when a live      *)
(* object other than x still holds it.                                      *)
BadFree(w, x, p) ==
  /\ p # nullptr
  /\ \/ ~w.heap[p].alloc
     \/ \E o \in Objects \ {x} : w.bufs[o].live /\ w.bufs[o].data = p

(* Mutant: a destructor that destroys the elements but keeps the block *)
Dtor_keeps_block(w, x) ==
  LET w1 == clear(w, x)
  IN  [w1 EXCEPT !.bufs[x] = NoObject]

Dtor(w, x) ==
  LET w1 == clear(w, x)
  IN  [w1 EXCEPT !.bufs[x] = NoObject,
                 !.heap = operator_delete(w1.heap, data(w1, x)),
                 !.badfree = @ \/ BadFree(w1, x, data(w1, x))]

(* Mutant: ensure_capacity that also reallocates when the capacity suffices *)
ensure_capacity_when_equal(w, x, new_capacity) ==
  IF capacity(w, x) <= new_capacity
  THEN LET w1 == SizedCopyCtor(w, Tmp, x, new_capacity)
       IN  IF w1.thrown THEN w1 ELSE Dtor(swap(w1, Tmp, x), Tmp)
  ELSE w

ensure_capacity(w, x, new_capacity) ==
  IF capacity(w, x) < new_capacity
  THEN LET w1 == SizedCopyCtor(w, Tmp, x, new_capacity)
       IN  IF w1.thrown THEN w1 ELSE Dtor(swap(w1, Tmp, x), Tmp)
  ELSE w

(* Mutant: growth by one slot instead of doubling *)
GrownCapacity_plus_one(w, x) == ToWord(capacity(w, x) + 1)

GrownCapacity(w, x) == IF capacity(w, x) = 0 THEN 1 ELSE ToWord(capacity(w, x) * 2)

---------------------------------------------------------------------------
(* Public mutators *)

(* Mutant: push_back that grows only a buffer without storage *)
push_back_grows_only_empty(w, x, val) ==
  LET w1 == IF capacity(w, x) = 0 THEN ensure_capacity(w, x, 1) ELSE w
  IN  [CopyConstructFrom(w1, data(w1, x), tail(w1, x), val)
         EXCEPT !.bufs[x].size = @ + 1]

RECURSIVE push_back(_, _, _)
push_back(w, x, val) ==
  IF size(w, x) = capacity(w, x)
  THEN LET w1 == ensure_capacity(w, x, GrownCapacity(w, x))
       IN  IF w1.thrown THEN w1 ELSE push_back(w1, x, val)
  ELSE LET w1 == CopyConstructFrom(w, data(w, x), tail(w, x), val)
       IN  IF w1.thrown THEN w1 ELSE [w1 EXCEPT !.bufs[x].size = @ + 1]

(* Mutant: push_front that grows one element too early *)
push_front_grows_early(w, x, val) ==
  LET w1  == IF size(w, x) + 1 >= capacity(w, x)
             THEN ensure_capacity(w, x, GrownCapacity(w, x)) ELSE w
      tmp == ToWord(w1.bufs[x].head + capacity(w1, x) - 1) % capacity(w1, x)
  IN  [CopyConstructFrom(w1, data(w1, x), tmp, val)
         EXCEPT !.bufs[x].head = tmp, !.bufs[x].size = @ + 1]

RECURSIVE push_front(_, _, _)
push_front(w, x, val) ==
  IF size(w, x) = capacity(w, x)
  THEN LET w1 == ensure_capacity(w, x, GrownCapacity(w, x))
       IN  IF w1.thrown THEN w1 ELSE push_front(w1, x, val)
  ELSE LET tmp == ToWord(w.bufs[x].head + capacity(w, x) - 1) % capacity(w, x)
           w1  == CopyConstructFrom(w, data(w, x), tmp, val)
       IN  IF w1.thrown THEN w1
           ELSE [w1 EXCEPT !.bufs[x].head = tmp, !.bufs[x].size = @ + 1]

reserve(w, x, desired_capacity) == ensure_capacity(w, x, desired_capacity)

(* Mutant: the front shift of insert runs one swap too far *)
RECURSIVE InsertShiftFront_one_more(_, _, _)
InsertShiftFront_one_more(w, i, spot) ==
  IF ItLe(i, spot)
  THEN InsertShiftFront_one_more(iter_swap(w, i, ItPlus(i, 1)), ItPlus(i, 1), spot)
  ELSE w

(* Mutant: the front shift of insert stops one swap short *)
RECURSIVE InsertShiftFront_one_less(_, _, _)
InsertShiftFront_one_less(w, i, spot) ==
  IF ItLt(ItPlus(i, 1), spot)
  THEN InsertShiftFront_one_less(iter_swap(w, i, ItPlus(i, 1)), ItPlus(i, 1), spot)
  ELSE w

RECURSIVE InsertShiftFront(_, _, _)
InsertShiftFront(w, i, spot) ==
  IF ItLt(i, spot)
  THEN InsertShiftFront(iter_swap(w, i, ItPlus(i, 1)), ItPlus(i, 1), spot)
  ELSE w

RECURSIVE InsertShiftBack(_, _, _)
InsertShiftBack(w, i, spot) ==
  IF ItGt(i, spot)
  THEN InsertShiftBack(iter_swap(w, i, ItMinus(i, 1)), ItMinus(i, 1), spot)
  ELSE w

insert(w, x, pos, val) ==
  LET delta == ItDiff(pos, begin(w, x))
  IN  IF ToWord(delta + Word) < size(w, x) \div 2
      THEN LET w1   == push_front([w EXCEPT !.side = "front"], x, val)
               spot == ItPlus(begin(w1, x), delta)
           IN  IF w1.thrown THEN [w |-> w1, ret |-> pos]
               ELSE [w |-> InsertShiftFront(w1, begin(w1, x), spot), ret |-> spot]
      ELSE LET w1   == push_back([w EXCEPT !.side = "back"], x, val)
               spot == ItPlus(begin(w1, x), delta)
           IN  IF w1.thrown THEN [w |-> w1, ret |-> pos]
               ELSE [w |-> InsertShiftBack(w1, ItMinus(end(w1, x), 1), spot),
                     ret |-> spot]

RECURSIVE EraseShiftTail(_, _, _, _)
EraseShiftTail(w, x, i, delta) ==
  IF ItLt(ItPlus(i, delta), end(w, x))
  THEN EraseShiftTail(iter_swap(w, i, ItPlus(i, delta)), x, ItPlus(i, 1), delta)
  ELSE w

(* Mutant: the head shift of erase stops one element early *)
RECURSIVE EraseShiftHead_one_less(_, _, _, _)
EraseShiftHead_one_less(w, x, i, delta) ==
  IF ItGt(i, ItPlus(begin(w, x), delta))
  THEN EraseShiftHead_one_less(iter_swap(w, i, ItMinus(i, delta)), x, ItMinus(i, 1), delta)
  ELSE w

RECURSIVE EraseShiftHead(_, _, _, _)
EraseShiftHead(w, x, i, delta) ==
  IF ItGe(i, ItPlus(begin(w, x), delta))
  THEN EraseShiftHead(iter_swap(w, i, ItMinus(i, delta)), x, ItMinus(i, 1), delta)
  ELSE w

RECURSIVE PopBackTimes(_, _, _, _)
PopBackTimes(w, x, i, delta) ==
  IF i < delta THEN PopBackTimes(pop_back(w, x), x, i + 1, delta) ELSE w

RECURSIVE PopFrontTimes(_, _, _, _)
PopFrontTimes(w, x, i, delta) ==
  IF i < delta THEN PopFrontTimes(pop_front(w, x), x, i + 1, delta) ELSE w

erase(w, x, first, lst) ==
  LET delta == ItDiff(lst, first)
  IN  IF ToWord(ItDiff(end(w, x), lst) + Word) < size(w, x) \div 2
      THEN LET w1 == EraseShiftTail([w EXCEPT !.side = "back"], x, first, delta)
           IN  [w |-> PopBackTimes(w1, x, 0, delta), ret |-> first]
      ELSE IF delta # 0
      THEN LET diff == ItDiff(first, begin(w, x))
               w1   == EraseShiftHead([w EXCEPT !.side = "front"], x,
                                     ItMinus(lst, 1), delta)
               w2   == PopFrontTimes(w1, x, 0, delta)
           IN  [w |-> w2, ret |-> ItPlus(begin(w2, x), diff)]
      ELSE [w |-> w, ret |-> first]

erase1(w, x, pos) == erase(w, x, pos, ItPlus(pos, 1))

(* Mutant: operator= without the self-assignment guard *)
CopyAssign_unguarded(w, x, other) ==
  LET w1 == CopyCtor(w, Tmp, other)
  IN  IF w1.thrown THEN w1 ELSE Dtor(swap(w1, Tmp, x), Tmp)

CopyAssign(w, x, other) ==
  IF BufNe(w, x, other)
  THEN LET w1 == CopyCtor(w, Tmp, other)
       IN  IF w1.thrown THEN w1 ELSE Dtor(swap(w1, Tmp, x), Tmp)
  ELSE w

(* buf[i] as the reference operator[] returns *)
IndexRef(w, x, i) ==
  ElemRef(data(w, x), ToWord(w.bufs[x].head + i) % capacity(w, x))

IndexAssign(w, x, i, val) ==
  AssignAt(w, data(w, x), ToWord(w.bufs[x].head + i) % capacity(w, x), val)

---------------------------------------------------------------------------
(* State machine: one action per public operation *)

World ==
  [bufs |-> bufs, heap |-> heap, objs |-> objs,
   throws |-> FALSE, fuel |-> 0, nomem |-> FALSE, junk |-> NoElem,
   thrown |-> FALSE, ub |-> FALSE, made |-> 0, gone |-> 0, swaps |-> 0,
   side |-> "none", badfree |-> FALSE]

Done(w, r, op, x) ==
  /\ bufs' = w.bufs
  /\ heap' = w.heap
  /\ objs' = w.objs
  /\ ref' = r
  /\ last' = [op |-> op, buf |-> x, side |-> w.side, swaps |-> w.swaps]
  /\ misfreed' = (misfreed \/ w.badfree)
  /\ cur' = cur

InsertAt(s, d, v) == SubSeq(s, 1, d) \o <<v>> \o SubSeq(s, d + 1, Len(s))

RemoveRange(s, f, l) == SubSeq(s, 1, f) \o SubSeq(s, l + 1, Len(s))

Init ==
  /\ bufs = [o \in Objects |-> IF o = "A" THEN DefaultCtor ELSE NoObject]
  /\ heap = [b \in Blocks |-> FreedBlock]
  /\ objs = 0
  /\ ref = [x \in Names |-> << >>]
  /\ last = [op |-> "init", buf |-> "A", side |-> "none", swaps |-> 0]
  /\ misfreed = FALSE
  /\ cur = [c \in {"a", "b"} |-> begin(World, "A")]

Construct(x) ==
  /\ ~bufs[x].live
  /\ Done([World EXCEPT !.bufs[x] = DefaultCtor], [ref EXCEPT ![x] = << >>],
          "construct", x)

CopyConstruct(x, other) ==
  /\ ~bufs[x].live
  /\ bufs[other].live
  /\ Done(CopyCtor(World, x, other), [ref EXCEPT ![x] = ref[other]], "copy", x)

Destroy(x) ==
  /\ bufs[x].live
  /\ Done(Dtor(World, x), [ref EXCEPT ![x] = << >>], "destroy", x)

PushBack(x, v) ==
  /\ bufs[x].live
  /\ Done(push_back(World, x, Arg(v)), [ref EXCEPT ![x] = Append(@, v)], "push_back", x)

PushFront(x, v) ==
  /\ bufs[x].live
  /\ Done(push_front(World, x, Arg(v)), [ref EXCEPT ![x] = <<v>> \o @], "push_front", x)

PopBack(x) ==
  /\ bufs[x].live
  /\ ~empty(World, x)
  /\ Done(pop_back(World, x), [ref EXCEPT ![x] = SubSeq(@, 1, Len(@) - 1)],
          "pop_back", x)

PopFront(x) ==
  /\ bufs[x].live
  /\ ~empty(World, x)
  /\ Done(pop_front(World, x), [ref EXCEPT ![x] = Tail(@)], "pop_front", x)

Reserve(x, n) ==
  /\ bufs[x].live
  /\ Done(reserve(World, x, n), ref, "reserve", x)

Insert(x, d, v) ==
  /\ bufs[x].live
  /\ d \in 0..size(World, x)
  /\ LET r == insert(World, x, ItPlus(begin(World, x), d), Arg(v))
     IN  Done(r.w, [ref EXCEPT ![x] = InsertAt(@, d, v)], "insert", x)

Erase(x, f, l) ==
  /\ bufs[x].live
  /\ f \in 0..size(World, x)
  /\ l \in f..size(World, x)
  /\ LET r == erase(World, x, ItPlus(begin(World, x), f), ItPlus(begin(World, x), l))
     IN  Done(r.w, [ref EXCEPT ![x] = RemoveRange(@, f, l)], "erase", x)

ErasePos(x, d) ==
  /\ bufs[x].live
  /\ d \in 0..(size(World, x) - 1)
  /\ LET r == erase1(World, x, ItPlus(begin(World, x), d))
     IN  Done(r.w, [ref EXCEPT ![x] = RemoveRange(@, d, d + 1)], "erase_pos", x)

Clear(x) ==
  /\ bufs[x].live
  /\ Done(clear(World, x), [ref EXCEPT ![x] = << >>], "clear", x)

Assign(x, other) ==
  /\ bufs[x].live
  /\ bufs[other].live
  /\ Done(CopyAssign(World, x, other), [ref EXCEPT ![x] = ref[other]], "assign", x)

Swap(x, y) ==
  /\ bufs[x].live
  /\ bufs[y].live
  /\ Done(swap(World, x, y), [ref EXCEPT ![x] = ref[y], ![y] = ref[x]], "swap", x)

Write(x, i, v) ==
  /\ bufs[x].live
  /\ i \in 0..(size(World, x) - 1)
  /\ Done(IndexAssign(World, x, i, v), [ref EXCEPT ![x][i + 1] = v], "write", x)

(* it + n and it - n on one of the two cursors, kept within MaxOffset of    *)
(* begin() by the bound of the model                                        *)
CursorAdd(c, n) ==
  /\ cur' = [cur EXCEPT ![c] = ItPlus(@, n)]
  /\ UNCHANGED <<bufs, heap, objs, ref, last, misfreed>>

CursorSub(c, n) ==
  /\ cur' = [cur EXCEPT ![c] = ItMinus(@, n)]
  /\ UNCHANGED <<bufs, heap, objs, ref, last, misfreed>>

(* The world of a call in which a read of released storage yields g *)
ReadingJunk(g) == [World EXCEPT !.junk = g]

(* buf.push_back(buf[i]) and buf.push_front(buf[i]) *)
PushBackSelf(x, i, g) ==
  /\ bufs[x].live
  /\ i \in 0..(size(World, x) - 1)
  /\ LET w == push_back(ReadingJunk(g), x, IndexRef(World, x, i))
     IN  Done(w, [ref EXCEPT ![x] = Append(@, back(w, x))], "push_back_self", x)

PushFrontSelf(x, i, g) ==
  /\ bufs[x].live
  /\ i \in 0..(size(World, x) - 1)
  /\ LET w == push_front(ReadingJunk(g), x, IndexRef(World, x, i))
     IN  Done(w, [ref EXCEPT ![x] = <<front(w, x)>> \o @], "push_front_self", x)

(* The world of a call in which T's copy constructor throws at copy k + 1 *)
Throwing(k) == [World EXCEPT !.throws = TRUE, !.fuel = k]

(* The world of a call in which operator new throws std::bad_alloc *)
OutOfMemory == [World EXCEPT !.nomem = TRUE]

(* Calls that end with an exception leaving the member function *)
PushBackThrows(x, v, k) ==
  /\ bufs[x].live
  /\ LET w == push_back(Throwing(k), x, Arg(v))
     IN  w.thrown /\ Done(w, ref, "push_back_throws", x)

PushFrontThrows(x, v, k) ==
  /\ bufs[x].live
  /\ LET w == push_front(Throwing(k), x, Arg(v))
     IN  w.thrown /\ Done(w, ref, "push_front_throws", x)

ReserveThrows(x, n, k) ==
  /\ bufs[x].live
  /\ LET w == reserve(Throwing(k), x, n)
     IN  w.thrown /\ Done(w, ref, "reserve_throws", x)

ReserveOutOfMemory(x, n) ==
  /\ bufs[x].live
  /\ LET w == reserve(OutOfMemory, x, n)
     IN  w.thrown /\ Done(w, ref, "reserve_nomem", x)

---------------------------------------------------------------------------
(* Specifications.  Capacities are unbounded in the code; each            *)
(* specification keeps the steps whose resulting capacities fit its bound. *)

Within(bound) == \A x \in Names : bufs[x].capacity <= bound

(* Push and pop at both ends of one initially empty buffer *)
NextDeque ==
  \/ \E v \in Values : PushBack("A", v) /\ Within(MaxCap)'
  \/ \E v \in Values : PushFront("A", v) /\ Within(MaxCap)'
  \/ PopBack("A")
  \/ PopFront("A")

SpecDeque == Init /\ [][NextDeque]_vars

(* Every operation of one buffer *)
NextOne ==
  \/ \E v \in Values : PushBack("A", v) /\ Within(MaxCap)'
  \/ \E v \in Values : PushFront("A", v) /\ Within(MaxCap)'
  \/ PopBack("A")
  \/ PopFront("A")
  \/ \E n \in 0..MaxCap : Reserve("A", n)
  \/ \E d \in 0..MaxCap, v \in Values : Insert("A", d, v) /\ Within(MaxCap)'
  \/ \E f \in 0..MaxCap, l \in 0..MaxCap : Erase("A", f, l)
  \/ \E d \in 0..MaxCap : ErasePos("A", d)
  \/ Clear("A")
  \/ \E i \in 0..MaxCap, v \in Values : Write("A", i, v)

SpecOne == Init /\ [][NextOne]_vars

(* Pushes, inserts and erases of one buffer with room for element shifts:  *)
(* up to MaxLen elements in at most MaxCapShift slots, so that an insert,   *)
(* growing or not, finds several elements on either side of its position    *)
Sized(bound) == \A x \in Names : bufs[x].size <= bound

NextShift ==
  \/ \E v \in Values : PushBack("A", v) /\ Within(MaxCapShift)' /\ Sized(MaxLen)'
  \/ \E v \in Values : PushFront("A", v) /\ Within(MaxCapShift)' /\ Sized(MaxLen)'
  \/ \E d \in 0..MaxLen, v \in Values :
        Insert("A", d, v) /\ Within(MaxCapShift)' /\ Sized(MaxLen)'
  \/ \E f \in 0..MaxLen, l \in 0..MaxLen : Erase("A", f, l)

SpecShift == Init /\ [][NextShift]_vars

(* Every operation of one buffer, and pushes and reserves that fail *)
NextThrow ==
  \/ \E v \in Values : PushBack("A", v) /\ Within(MaxCap)'
  \/ \E v \in Values : PushFront("A", v) /\ Within(MaxCap)'
  \/ PopBack("A")
  \/ PopFront("A")
  \/ \E n \in 0..MaxCap : Reserve("A", n)
  \/ \E v \in Values, k \in 0..MaxCap : PushBackThrows("A", v, k) /\ Within(MaxCap)'
  \/ \E v \in Values, k \in 0..MaxCap : PushFrontThrows("A", v, k) /\ Within(MaxCap)'
  \/ \E n \in 0..MaxCap, k \in 0..MaxCap : ReserveThrows("A", n, k)
  \/ \E n \in 0..MaxCap : ReserveOutOfMemory("A", n)

SpecThrow == Init /\ [][NextThrow]_vars

(* Pushes and pops of one buffer, and pushes of its own elements *)
NextSelf ==
  \/ \E v \in Values : PushBack("A", v) /\ Within(MaxCap)'
  \/ \E v \in Values : PushFront("A", v) /\ Within(MaxCap)'
  \/ PopBack("A")
  \/ PopFront("A")
  \/ \E i \in 0..MaxCap, g \in Values : PushBackSelf("A", i, g) /\ Within(MaxCap)'
  \/ \E i \in 0..MaxCap, g \in Values : PushFrontSelf("A", i, g) /\ Within(MaxCap)'

SpecSelf == Init /\ [][NextSelf]_vars

(* Arithmetic on two cursors of one buffer *)
NearBegin ==
  \A c \in DOMAIN cur :
     ItDiff(cur[c], begin(World, "A")) \in (-MaxOffset)..MaxOffset

NextCursor ==
  \/ \E c \in {"a", "b"}, n \in 1..2 : CursorAdd(c, n) /\ NearBegin'
  \/ \E c \in {"a", "b"}, n \in 1..2 : CursorSub(c, n) /\ NearBegin'

SpecCursor == Init /\ [][NextCursor]_vars

(* Two buffers.  "A" takes every operation; "B" is default constructed,     *)
(* copy constructed from "A", assigned, swapped, pushed, popped, written    *)
(* and destroyed.  swap(a, b) is symmetric in its arguments and is called   *)
(* with "A" first; through it "B" takes every state "A" can reach.          *)
Next ==
  \/ Construct("B")
  \/ CopyConstruct("B", "A")
  \/ Destroy("B")
  \/ \E x \in Names, v \in Values : PushBack(x, v) /\ Within(MaxCapTwo)'
  \/ \E v \in Values : PushFront("A", v) /\ Within(MaxCapTwo)'
  \/ PopBack("A")
  \/ \E x \in Names : PopFront(x)
  \/ \E n \in 0..MaxCapTwo : Reserve("A", n)
  \/ \E d \in 0..MaxCapTwo, v \in Values : Insert("A", d, v) /\ Within(MaxCapTwo)'
  \/ \E f \in 0..MaxCapTwo, l \in 0..MaxCapTwo : Erase("A", f, l)
  \/ Clear("A")
  \/ \E x \in Names, y \in Names : Assign(x, y)
  \/ \E y \in Names : Swap("A", y)
  \/ \E x \in Names, i \in 0..MaxCapTwo, v \in Values : Write(x, i, v)

Spec == Init /\ [][Next]_vars

(* The same operations with more room while "A" is the only buffer: two     *)
(* live buffers have at most MaxCapTwo slots each, "A" alone at most MaxCap *)
Fits == IF bufs["B"].live THEN Within(MaxCapTwo) ELSE Within(MaxCap)

NextRoom ==
  \/ Construct("B") /\ Fits'
  \/ CopyConstruct("B", "A") /\ Fits'
  \/ Destroy("B")
  \/ \E x \in Names, v \in Values : PushBack(x, v) /\ Fits'
  \/ \E v \in Values : PushFront("A", v) /\ Fits'
  \/ PopBack("A")
  \/ \E x \in Names : PopFront(x)
  \/ \E n \in 0..MaxCap : Reserve("A", n) /\ Fits'
  \/ \E d \in 0..MaxCap, v \in Values : Insert("A", d, v) /\ Fits'
  \/ \E f \in 0..MaxCap, l \in 0..MaxCap : Erase("A", f, l)
  \/ Clear("A")
  \/ \E x \in Names, y \in Names : Assign(x, y)
  \/ \E y \in Names : Swap("A", y)
  \/ \E x \in Names, i \in 0..MaxCap, v \in Values : Write(x, i, v)

SpecRoom == Init /\ [][NextRoom]_vars

---------------------------------------------------------------------------
(* Observations of the current state *)

ContentsOf(w, x) == [i \in 1..size(w, x) |-> Index(w, x, i - 1)]

Contents(x) == ContentsOf(World, x)

StorageOf(w, x) == IF data(w, x) = nullptr THEN FreedBlock ELSE w.heap[data(w, x)]

ConstructedSlots(x) ==
  {k \in DOMAIN heap[bufs[x].data].slots : heap[bufs[x].data].slots[k] # NoElem}

LogicalSlots(x) ==
  {(bufs[x].head + i) % bufs[x].capacity : i \in 0..(bufs[x].size - 1)}

Wrapped(x) == bufs[x].head + bufs[x].size > bufs[x].capacity

Other(x) == IF x = "A" THEN "B" ELSE "A"

---------------------------------------------------------------------------
(* Claims *)

(* C1: after every push_back, push_front, pop_back and pop_front on an      *)
(* initially empty buffer, size(), the elements read through operator[],    *)
(* front() and back() equal those of the reference deque ref["A"] that      *)
(* executed the same sequence.                                              *)
C1_DequeRefinement ==
  LET n == size(World, "A")
  IN  /\ n = Len(ref["A"])
      /\ \A i \in 0..(n - 1) : Index(World, "A", i) = ref["A"][i + 1]
      /\ n > 0 => /\ front(World, "A") = Head(ref["A"])
                  /\ back(World, "A") = ref["A"][n]

C1_Witness ==
  /\ last.op = "push_front"
  /\ bufs["A"].capacity = 4
  /\ bufs["A"].size >= 3
  /\ Wrapped("A")
  /\ ref["A"][1] # ref["A"][2]

InsertResult(d, v) == insert(World, "A", ItPlus(begin(World, "A"), d), Arg(v))

EraseResult(f, l) ==
  erase(World, "A", ItPlus(begin(World, "A"), f), ItPlus(begin(World, "A"), l))

(* C2: insert(pos, v) at distance d = pos - begin(), 0 <= d <= size(),      *)
(* yields the contents s[0..d) ++ [v] ++ s[d..size), makes size() one       *)
(* larger, and returns a cursor at logical offset d that dereferences to v, *)
(* with and without growth and towards either side.  (ref is the reference  *)
(* sequence the action updates: the step is looked for only among the d, v  *)
(* that account for its change.)                                            *)
C2_InsertCorrect ==
  [][\A d \in 0..MaxLen, v \in Values :
       (/\ last'.op = "insert"
        /\ d <= bufs["A"].size
        /\ ref'["A"] = InsertAt(ref["A"], d, v)
        /\ Insert("A", d, v)) =>
          /\ Contents("A")' = InsertAt(Contents("A"), d, v)
          /\ bufs'["A"].size = bufs["A"].size + 1
          /\ InsertResult(d, v).ret = Iter("A", d)
          /\ ItDeref(World', InsertResult(d, v).ret) = v]_vars

(* An insert at distance 2 that pushed at the front and swapped the two     *)
(* elements before its position back, in a buffer that wraps                *)
C2_Witness ==
  /\ last.op = "insert"
  /\ last.side = "front"
  /\ last.swaps = 2
  /\ Wrapped("A")
  /\ Contents("A")[1] # Contents("A")[2]
  /\ Contents("A")[3] # Contents("A")[2]
  /\ Contents("A")[3] # Contents("A")[4]

(* C3: erase(first, last) with 0 <= f <= l <= size() yields the contents    *)
(* s[0..f) ++ s[l..size), makes size() smaller by l - f, and returns a      *)
(* cursor at logical offset f, in either shift direction.                   *)
C3_EraseCorrect ==
  [][\A f \in 0..MaxCap, l \in 0..MaxCap :
       (last'.op = "erase" /\ Erase("A", f, l)) =>
          /\ Contents("A")' = RemoveRange(Contents("A"), f, l)
          /\ bufs'["A"].size = bufs["A"].size - (l - f)
          /\ EraseResult(f, l).ret = Iter("A", f)]_vars

C3_Witness ==
  /\ last.op = "erase"
  /\ bufs["A"].size = 2
  /\ bufs["A"].capacity = 4
  /\ bufs["A"].head = 3
  /\ Contents("A")[1] # Contents("A")[2]

(* C4: in every reachable state every buffer has 0 <= count <= capacity.    *)
C4_CountWithinCapacity ==
  \A o \in Objects : 0 <= bufs[o].size /\ bufs[o].size <= bufs[o].capacity

C4_Witness ==
  /\ last.op = "copy"
  /\ bufs["B"].live
  /\ bufs["B"].size = bufs["B"].capacity
  /\ bufs["B"].size = 2
  /\ Wrapped("A")

(* C5: between public operations, the constructed slots of every live       *)
(* buffer's block are exactly (head + i) mod capacity for 0 <= i < count,   *)
(* and no constructed element exists anywhere else (the elements of the     *)
(* old block were destroyed before it was released), after growth and after *)
(* the shifts and pops of erase as after every other operation.             *)
C5_ConstructedIsLogicalRange ==
  /\ \A x \in Names : bufs[x].live =>
        IF bufs[x].data = nullptr
        THEN bufs[x].capacity = 0 /\ bufs[x].size = 0
        ELSE /\ heap[bufs[x].data].alloc
             /\ DOMAIN heap[bufs[x].data].slots = 0..(bufs[x].capacity - 1)
             /\ ConstructedSlots(x) = LogicalSlots(x)
  /\ objs = bufs["A"].size + bufs["B"].size
  /\ ~bufs[Tmp].live

(* An erase that swapped an element over the erased range and popped two    *)
(* elements at the front, leaving a range that wraps                        *)
C5_Witness ==
  /\ last.op = "erase"
  /\ last.buf = "A"
  /\ last.side = "front"
  /\ last.swaps = 1
  /\ bufs["A"].capacity = 4
  /\ bufs["A"].size = 2
  /\ Wrapped("A")

(* C6 as stated: no operation, copy assignment and swap included, leaves  *)
(* capacity() of a live buffer smaller than it was.                         *)
C6_CapacityNeverShrinks ==
  [][\A x \in Names :
       (bufs[x].live /\ bufs'[x].live) => bufs'[x].capacity >= bufs[x].capacity]_vars

(* C6 amended: push_back, push_front, pop_back, pop_front, reserve, insert, *)
(* erase and clear never leave capacity() smaller; only copy assignment and *)
(* swap, which adopt another buffer's capacity, can.                        *)
C6_CapacityShrinksOnlyByAssignOrSwap ==
  [][last'.op \notin {"assign", "swap"} =>
       \A x \in Names :
         (bufs[x].live /\ bufs'[x].live) => bufs'[x].capacity >= bufs[x].capacity]_vars

C6_Witness ==
  /\ last.op = "clear"
  /\ last.buf = "A"
  /\ bufs["A"].capacity = 2
  /\ bufs["A"].head = 1
  /\ bufs["B"].live
  /\ bufs["B"].capacity = 1

PushOps == {"push_back", "push_front"}

PopOps == {"pop_back", "pop_front"}

(* C7: a push on a buffer with count = capacity = c results in capacity 1   *)
(* when c = 0 and 2c when c > 0; a push with count < capacity leaves        *)
(* capacity unchanged.                                                      *)
C7_GrowthPolicy ==
  [][last'.op \in PushOps =>
       bufs'["A"].capacity =
         IF bufs["A"].size = bufs["A"].capacity
         THEN (IF bufs["A"].capacity = 0 THEN 1 ELSE 2 * bufs["A"].capacity)
         ELSE bufs["A"].capacity]_vars

C7_Witness ==
  /\ last.op = "push_front"
  /\ bufs["A"].capacity = 4
  /\ bufs["A"].size = 3
  /\ bufs["A"].head = 3

(* C8: reserve(n) leaves capacity >= n, and every push or pop that finds    *)
(* count < capacity (every pop does) keeps the storage block and capacity:  *)
(* so after reserve(n) nothing reallocates while count stays <= n.          *)
C8_NoReallocationWithinReserved ==
  [][/\ \A n \in 0..MaxCap :
          (last'.op = "reserve" /\ Reserve("A", n)) => bufs'["A"].capacity >= n
     /\ (last'.op \in PushOps \cup PopOps /\ bufs'["A"].size <= bufs["A"].capacity) =>
          /\ bufs'["A"].data = bufs["A"].data
          /\ bufs'["A"].capacity = bufs["A"].capacity]_vars

C8_Witness ==
  /\ last.op = "push_front"
  /\ bufs["A"].capacity = 3
  /\ bufs["A"].size = 3

MutatingOps ==
  PushOps \cup PopOps \cup {"insert", "erase", "erase_pos", "reserve", "clear", "write"}

(* C9: a copy-constructed buffer has the contents of its source, and a      *)
(* mutating operation on one buffer leaves the other buffer's fields,       *)
(* storage block and contents unchanged.                                    *)
C9_DeepIndependence ==
  [][/\ last'.op = "copy" =>
          /\ ContentsOf(World', last'.buf) = Contents(Other(last'.buf))
          /\ ContentsOf(World', Other(last'.buf)) = Contents(Other(last'.buf))
     /\ last'.op \in MutatingOps =>
          /\ bufs'[Other(last'.buf)] = bufs[Other(last'.buf)]
          /\ StorageOf(World', Other(last'.buf)) = StorageOf(World, Other(last'.buf))
          /\ ContentsOf(World', Other(last'.buf)) = Contents(Other(last'.buf))]_vars

C9_Witness ==
  /\ last.op = "write"
  /\ last.buf = "A"
  /\ bufs["B"].live
  /\ bufs["A"].size = bufs["B"].size
  /\ bufs["A"].capacity = bufs["B"].capacity
  /\ bufs["A"].size = 2
  /\ bufs["A"].head # bufs["B"].head
  /\ Contents("A") # Contents("B")

(* C10: after the copy assignment x = y the contents and size of x equal    *)
(* those of y, and y is unchanged; the operator!= guard never skips an      *)
(* assignment that would have changed x.                                    *)
C10_AssignCopies ==
  [][\A x \in Names, y \in Names :
       (last'.op = "assign" /\ last'.buf = x /\ Assign(x, y)) =>
          /\ Contents(x)' = Contents(y)
          /\ bufs'[x].size = bufs[y].size
          /\ x # y => /\ bufs'[y] = bufs[y]
                      /\ StorageOf(World', y) = StorageOf(World, y)
                      /\ ContentsOf(World', y) = Contents(y)]_vars

C10_Witness ==
  /\ last.op = "assign"
  /\ last.buf = "A"
  /\ bufs["B"].size = 2
  /\ Wrapped("B")
  /\ Contents("B")[1] # Contents("B")[2]
  /\ Contents("A") = Contents("B")

(* C11: the self-assignment x = x leaves x's size, contents, capacity, head *)
(* and storage block as they were, the heap untouched, and constructs and   *)
(* destroys no element.                                                     *)
C11_SelfAssignUnchanged ==
  [][\A x \in Names :
       (last'.op = "assign" /\ last'.buf = x /\ Assign(x, x)) =>
          /\ bufs'[x] = bufs[x]
          /\ heap' = heap
          /\ Contents(x)' = Contents(x)
          /\ CopyAssign(World, x, x).made = 0
          /\ CopyAssign(World, x, x).gone = 0]_vars

C11_Witness ==
  /\ last.op = "assign"
  /\ last.buf = "A"
  /\ bufs["A"].size = 2
  /\ bufs["A"].capacity = 2
  /\ bufs["A"].head = 1
  /\ Contents("A")[1] # Contents("A")[2]

ThrowingPushOps == {"push_back_throws", "push_front_throws"}

(* C12: when push_back or push_front ends with the exception of a throwing  *)
(* element copy, whether thrown while the old elements were copied during   *)
(* growth or while the new element was constructed after growth, the buffer *)
(* has the same count, contents, capacity and head as before the call.      *)
C12_PushStrongGuarantee ==
  [][last'.op \in ThrowingPushOps =>
       /\ bufs'["A"].size = bufs["A"].size
       /\ Contents("A")' = Contents("A")
       /\ bufs'["A"].capacity = bufs["A"].capacity
       /\ bufs'["A"].head = bufs["A"].head]_vars

(* C13: when reserve(n) ends with an exception, from operator new or from   *)
(* the copy of any one element, the buffer's fields (storage block,         *)
(* capacity, head, count) and contents are unchanged, the heap is as before *)
(* (the new block is released), and the call destroyed every copy it made.  *)
C13_ReserveStrongGuarantee ==
  [][/\ last'.op \in {"reserve_throws", "reserve_nomem"} =>
          /\ bufs'["A"] = bufs["A"]
          /\ heap' = heap
          /\ objs' = objs
          /\ Contents("A")' = Contents("A")
     /\ \A n \in 0..MaxCap, k \in 0..MaxCap :
          (last'.op = "reserve_throws" /\ ReserveThrows("A", n, k)) =>
             /\ reserve(Throwing(k), "A", n).made = k
             /\ reserve(Throwing(k), "A", n).gone = k]_vars

C13_Witness ==
  /\ last.op = "reserve_throws"
  /\ bufs["A"].size = 3
  /\ bufs["A"].capacity = 3
  /\ bufs["A"].head = 2
  /\ Contents("A")[1] # Contents("A")[3]

(* The element a cursor at logical offset i of "A" dereferences to *)
CursorReads(w, i) == ItDeref(w, ItPlus(begin(w, "A"), i))

(* C14: after pop_back or pop_front every cursor obtained before the call   *)
(* that referenced an element other than the removed one dereferences to    *)
(* the same element as before the call.                                     *)
C14_CursorsSurvivePop ==
  [][/\ last'.op = "pop_back" =>
          \A i \in 0..MaxCap : i < bufs["A"].size - 1 =>
             CursorReads(World', i) = CursorReads(World, i)
     /\ last'.op = "pop_front" =>
          \A i \in 1..MaxCap : i < bufs["A"].size =>
             CursorReads(World', i) = CursorReads(World, i)]_vars

(* C15: after an insert at offset d that keeps the storage block, and after *)
(* an erase of [f, l), every cursor at an offset below d (below f)          *)
(* dereferences to the same element as before, in both shift directions.    *)
(* (ref is the reference sequence the action updates: the step is looked    *)
(* for only among the positions that account for its change.)               *)
C15_CursorsBeforeSurvive ==
  [][/\ \A d \in 0..MaxLen, v \in Values :
          (/\ last'.op = "insert"
           /\ d <= bufs["A"].size
        /\ ref'["A"] = InsertAt(ref["A"], d, v)
           /\ Insert("A", d, v)
           /\ bufs'["A"].data = bufs["A"].data
           /\ bufs'["A"].capacity = bufs["A"].capacity) =>
             \A j \in 0..(d - 1) : CursorReads(World', j) = CursorReads(World, j)
     /\ \A f \in 0..MaxLen, l \in 0..MaxLen :
          (/\ last'.op = "erase"
           /\ f <= l
           /\ l <= bufs["A"].size
           /\ ref'["A"] = RemoveRange(ref["A"], f, l)
           /\ Erase("A", f, l)) =>
             \A j \in 0..(f - 1) : CursorReads(World', j) = CursorReads(World, j)]_vars

(* An insert on the front side with two cursors before its position: seven  *)
(* elements in eight slots are not the result of a growing insert, which    *)
(* leaves five                                                              *)
C15_Witness ==
  /\ last.op = "insert"
  /\ last.side = "front"
  /\ last.swaps = 2
  /\ bufs["A"].size = 7
  /\ bufs["A"].capacity = 8
  /\ bufs["A"].head = 7
  /\ Contents("A")[1] # Contents("A")[2]

HeldBlocks == {bufs[o].data : o \in {q \in Objects : bufs[q].live}} \ {nullptr}

AllocatedBlocks == {b \in Blocks : heap[b].alloc}

(* C16: no two live buffer objects hold the same non-null block; the        *)
(* allocated blocks are exactly the blocks held by live objects, so none    *)
(* was released while held and none was left unreleased; and no destructor  *)
(* or handler released a block that was not allocated or that another live  *)
(* object, a temporary included, still held.                                *)
C16_ExclusiveOwnership ==
  /\ \A x \in Objects : \A y \in Objects \ {x} :
        (bufs[x].live /\ bufs[y].live /\ bufs[x].data # nullptr) =>
           bufs[x].data # bufs[y].data
  /\ AllocatedBlocks = HeldBlocks
  /\ ~misfreed

C16_Witness ==
  /\ last.op = "assign"
  /\ last.buf = "B"
  /\ bufs["B"].size = 2
  /\ bufs["A"].capacity = 2
  /\ bufs["A"].head = 1
  /\ Cardinality(AllocatedBlocks) = 2

Min(a, b) == IF a < b THEN a ELSE b

(* C17: erase(first, last) of a non-empty range with b elements before      *)
(* first and a elements after last keeps head (shifting the elements after  *)
(* last and popping from the back) exactly when a < b, otherwise advances   *)
(* head by last - first (shifting the elements before first and popping     *)
(* from the front), and performs min(b, a) element swaps.                   *)
C17_EraseShiftsSmallerSide ==
  [][\A f \in 0..MaxCap, l \in 0..MaxCap :
       (last'.op = "erase" /\ Erase("A", f, l) /\ f < l) =>
          LET b == f
              a == bufs["A"].size - l
          IN  /\ bufs'["A"].head =
                   IF a < b THEN bufs["A"].head
                   ELSE (bufs["A"].head + (l - f)) % bufs["A"].capacity
              /\ EraseResult(f, l).w.swaps = Min(b, a)]_vars

(* C18: reserve(n) with capacity < n ends with capacity n, head 0, logical  *)
(* element i in physical slot i of the new block, and the same count and    *)
(* contents; reserve(n) with n <= capacity changes neither the buffer's     *)
(* fields nor the heap.                                                     *)
C18_ReserveLayout ==
  [][\A n \in 0..MaxCap :
       (last'.op = "reserve" /\ Reserve("A", n)) =>
          IF bufs["A"].capacity < n
          THEN /\ bufs'["A"].capacity = n
               /\ bufs'["A"].head = 0
               /\ bufs'["A"].size = bufs["A"].size
               /\ Contents("A")' = Contents("A")
               /\ \A i \in 0..(bufs["A"].size - 1) :
                     heap'[bufs'["A"].data].slots[i] = Contents("A")[i + 1]
          ELSE /\ bufs'["A"] = bufs["A"]
               /\ heap' = heap]_vars

C18_Witness ==
  /\ last.op = "reserve"
  /\ bufs["A"].capacity = 3
  /\ bufs["A"].size = 2
  /\ bufs["A"].head = 0
  /\ Contents("A")[1] # Contents("A")[2]

(* C19: buf.push_back(buf[i]) and buf.push_front(buf[i]) insert a copy of   *)
(* the value buf[i] had before the call, also when the push grows the       *)
(* buffer, and never read the reference after the element it refers to was  *)
(* destroyed and its block released.                                        *)
C19_SelfReferencePush ==
  [][\A i \in 0..MaxCap, g \in Values :
       /\ (last'.op = "push_back_self" /\ PushBackSelf("A", i, g)) =>
             /\ ~push_back(ReadingJunk(g), "A", IndexRef(World, "A", i)).ub
             /\ back(World', "A") = Index(World, "A", i)
       /\ (last'.op = "push_front_self" /\ PushFrontSelf("A", i, g)) =>
             /\ ~push_front(ReadingJunk(g), "A", IndexRef(World, "A", i)).ub
             /\ front(World', "A") = Index(World, "A", i)]_vars

(* C20: for two cursors a and b of one buffer at offsets within MaxOffset   *)
(* of begin(), before begin() included, a < b iff a - b < 0, a > b iff      *)
(* a - b > 0 and a == b iff a - b = 0.                                      *)
C20_OrderAgreesWithDifference ==
  /\ ItLt(cur["a"], cur["b"]) <=> ItDiff(cur["a"], cur["b"]) < 0
  /\ ItGt(cur["a"], cur["b"]) <=> ItDiff(cur["a"], cur["b"]) > 0
  /\ ItEq(cur["a"], cur["b"]) <=> ItDiff(cur["a"], cur["b"]) = 0

====
